---- MODULE Spec2Model ----
(***************************************************************************)
(* Model of patch_extraction/extract_patches_split.py: the section-by-     *)
(* section patch extraction pipeline (extract_all) and the functions it    *)
(* calls (openSlide_init, read_wsi, construct_colored_wsi,                 *)
(* segmentation_hsv, construct_bags, parse_annotation, save_to_disk).      *)
(*                                                                         *)
(* Arrays are modelled by their shape and by the set of pixels that matter *)
(* to the code: a mask by its white pixels, an RGB image by the pixels     *)
(* whose grey value is zero.  Every array carries the identity (id) of the *)
(* buffer that holds its data, so that a NumPy view shares the id of the   *)
(* array it was sliced from.  Coordinates are <<x, y>> pairs.              *)
(***************************************************************************)
EXTENDS Integers, Sequences, FiniteSets, TLC

VARIABLES
    slide,                 \* the slide file: openable, level dimensions, tissue
    pnflag,                \* extract_all argument: annotated slide or not
    PATCH_SIZE,            \* patch size handed to construct_bags
    pc,                    \* position in extract_all / construct_bags
    err,                   \* the exception that ended the run, or "none"
    wsi_obj,               \* "OpenSlide" | "None" | "unbound"
    sect_i,                \* index into section_list of the current section
    rgba_image, wsi_rgb_, wsi_gray_, wsi_hsv_, mask,   \* extract_all locals
    contours,              \* raw contours of the current section
    contours_,             \* construct_bags: sorted, truncated contours
    reg_i,                 \* construct_bags: index of the region in contours_
    X, Y, h_pos, w_pos,    \* construct_bags: candidate grid and loop counters
    patches, patches_coords, patches_coords_local,
    visited,               \* candidates enumerated so far (the prints of line 383)
    patches_all,           \* extract_all: accumulated patch lists
    polygon_list,          \* extract_all: annotation polygons, or "unbound"
    disk,                  \* what save_to_disk has written, one entry per call
    regions_read,          \* the read_region calls made so far
    call, ret              \* a function applied on its own: arguments, result

vars == << slide, pnflag, PATCH_SIZE, pc, err, wsi_obj, sect_i, rgba_image,
           wsi_rgb_, wsi_gray_, wsi_hsv_, mask, contours, contours_, reg_i,
           X, Y, h_pos, w_pos, patches, patches_coords, patches_coords_local,
           visited, patches_all, polygon_list, disk, regions_read, call, ret >>

bagVars == << contours_, reg_i, X, Y, h_pos, w_pos, patches, patches_coords,
              patches_coords_local, visited >>

bufVars == << rgba_image, wsi_rgb_, wsi_gray_, wsi_hsv_, mask, contours >>

----------------------------------------------------------------------------
(* Program constants *)

CHANNEL == 3
SPLIT == 4
level == 1
TOP_REGIONS == 5

(* Bounds of the model *)

BaseDim == 32          \* smallest level width / height
DimSlack == 1          \* level dimensions range over BaseDim..BaseDim+DimSlack
MaxPatch == 3          \* patch sizes range over 2..MaxPatch
MaxLevel == 2          \* parse_annotation: levels 0..MaxLevel
MaxGroups == 2         \* parse_annotation: coordinate groups per annotation
MaxPts == 5            \* parse_annotation: points per coordinate group
MaxPolys == 2          \* calc_tumorArea: polygons per call
MaxCoords == 2         \* calc_tumorArea, save_to_disk: patch coordinates per call

Min(a, b) == IF a <= b THEN a ELSE b
Max(a, b) == IF a >= b THEN a ELSE b
Abs(a) == IF a >= 0 THEN a ELSE -a

RECURSIVE Pow2(_)
Pow2(n) == IF n = 0 THEN 1 ELSE 2 * Pow2(n - 1)

mag_factor == Pow2(level)

Dims == BaseDim..(BaseDim + DimSlack)
PatchSizes == 2..MaxPatch

NoArray == [id |-> 0, h |-> 0, w |-> 0, c |-> 0, px |-> {}]

----------------------------------------------------------------------------
(* Section grid: read_wsi lines 122-138, construct_bags lines 317-324 *)

\* section_list of extract_all; a section '12' is the pair <<1, 2>>
section_list ==
    << <<0,0>>, <<0,1>>, <<0,2>>, <<0,3>>,
       <<1,0>>, <<1,1>>, <<1,2>>, <<1,3>>,
       <<2,0>>, <<2,1>>, <<2,2>>, <<2,3>>,
       <<3,0>>, <<3,1>>, <<3,2>>, <<3,3>> >>

WidthSplitCeil(whole) == (whole + SPLIT - 1) \div SPLIT

\* width_split, height_split = width_whole // SPLIT, height_whole // SPLIT
WidthSplit(whole) == whole \div SPLIT

DeltaSwapped(sect, W, H) == << sect[2] * WidthSplit(W), sect[1] * WidthSplit(H) >>

\* delta_x = int(sect[0]) * width_split; delta_y = int(sect[1]) * height_split
Delta(sect, W, H) == << sect[1] * WidthSplit(W), sect[2] * WidthSplit(H) >>

\* the arguments of wsi_obj.read_region(location, level, size)
ReadRegionCall(sect, W, H) ==
    [ location |-> << Delta(sect, W, H)[1] * mag_factor,
                      Delta(sect, W, H)[2] * mag_factor >>,
      level |-> level,
      size |-> << WidthSplit(W), WidthSplit(H) >> ]

OpenSlideAlways(s) == "OpenSlide"

\* openSlide_init: the OpenSlide object, or None on OpenSlideUnsupportedFormatError
openSlide_init(s) == IF s.openable THEN "OpenSlide" ELSE "None"

----------------------------------------------------------------------------
(* Contours: cv2.contourArea, cv2.boundingRect, cv2.drawContours *)

\* the contour of an axis-aligned rectangle of w x h pixels at (x, y): its
\* four corner points, as cv2.findContours (CHAIN_APPROX_SIMPLE) returns them
Rect(x, y, w, h) ==
    << <<x, y>>, <<x + w - 1, y>>, <<x + w - 1, y + h - 1>>, <<x, y + h - 1>> >>

RECURSIVE Shoelace(_, _)
Shoelace(c, i) ==
    IF i > Len(c) THEN 0
    ELSE LET j == IF i = Len(c) THEN 1 ELSE i + 1
         IN  c[i][1] * c[j][2] - c[j][1] * c[i][2] + Shoelace(c, i + 1)

\* cv2.contourArea (Green's formula), doubled so that it stays an integer
contourArea2(c) == Abs(Shoelace(c, 1))

SetMin(S) == CHOOSE m \in S : \A n \in S : m <= n
SetMax(S) == CHOOSE m \in S : \A n \in S : m >= n

\* cv2.boundingRect: (x, y, w, h)
boundingRect(c) ==
    LET xs == { c[i][1] : i \in 1..Len(c) }
        ys == { c[i][2] : i \in 1..Len(c) }
    IN  << SetMin(xs), SetMin(ys),
           SetMax(xs) - SetMin(xs) + 1, SetMax(ys) - SetMin(ys) + 1 >>

\* the pixels cv2.drawContours(..., thickness=-1) paints for one rectangular
\* contour: the rectangle, border included
FillPixels(c) ==
    LET b == boundingRect(c)
    IN  { <<px, py>> : px \in b[1]..(b[1] + b[3] - 1),
                       py \in b[2]..(b[2] + b[4] - 1) }

\* get_contours lines 214-218: mask of the RGB image's shape, all contours filled
DrawMask(cs, shape, id) ==
    [ id |-> id, h |-> shape[1], w |-> shape[2], c |-> shape[3],
      px |-> UNION { FillPixels(cs[i]) : i \in 1..Len(cs) } ]

----------------------------------------------------------------------------
(* The slide: what each section of the level shows.  A section shows one   *)
(* of a few tissue layouts; its segmentation yields that layout's contours *)
(* (external contours: pairwise disjoint and not touching).                *)

TissueKinds == {"blob", "scatter"}

\* contours in the order findContours returns them (not sorted by area)
KindContours(kind) ==
    CASE kind = "none"    -> << >>
      [] kind = "dot"     -> << Rect(2, 2, 3, 3) >>
      [] kind = "blob"    -> << Rect(1, 1, 6, 6) >>
      [] kind = "scatter" -> << Rect(7, 3, 1, 3), Rect(4, 3, 2, 2), Rect(0, 0, 3, 3),
                                Rect(7, 7, 1, 1), Rect(0, 4, 2, 4), Rect(3, 6, 3, 2),
                                Rect(4, 0, 4, 2) >>

\* tissue pixels whose RGB value is black (grey value 0)
KindDark(kind) ==
    IF kind = "blob" THEN { <<2, 2>>, <<3, 2>>, <<2, 3>>, <<3, 3>>, <<5, 5>> } ELSE {}

\* the sections (indices into section_list) that may hold the main tissue
MainSections == {1, 7, 10, 16}

\* the section that holds the small tissue: cyclically 5 after the main one
Second(p) == ((p + 4) % 16) + 1

Slides ==
    { [ openable |-> o, W |-> W, H |-> H,
        tissue |-> [ s \in 1..16 |-> IF s = p THEN k
                                     ELSE IF s = Second(p) THEN "dot" ELSE "none" ] ] :
      o \in BOOLEAN, W \in Dims, H \in Dims, k \in TissueKinds, p \in MainSections }

----------------------------------------------------------------------------
(* construct_bags helpers *)

RECURSIVE InsertDesc(_, _, _)
\* insert contour c into the descending sequence s, after every element whose
\* key is >= its own (list.sort is stable, also with reverse=True)
InsertDesc(s, c, i) ==
    IF i > Len(s) THEN Append(s, c)
    ELSE IF contourArea2(s[i]) >= contourArea2(c) THEN InsertDesc(s, c, i + 1)
    ELSE SubSeq(s, 1, i - 1) \o <<c>> \o SubSeq(s, i, Len(s))

RECURSIVE SortFrom(_, _, _)
SortFrom(cs, acc, i) ==
    IF i > Len(cs) THEN acc ELSE SortFrom(cs, InsertDesc(acc, cs[i], 1), i + 1)

\* sorted(contours, key = cv2.contourArea, reverse = True)
SortedByArea(cs) == SortFrom(cs, << >>, 1)

FirstSix(cs) == SubSeq(cs, 1, Min(TOP_REGIONS + 1, Len(cs)))

\* contours_[:5]
FirstFive(cs) == SubSeq(cs, 1, Min(TOP_REGIONS, Len(cs)))

arangeInclusive(start, end, step) ==
    LET n == IF end >= start THEN (end - start) \div step + 1 ELSE 0
    IN  [ i \in 1..n |-> start + (i - 1) * step ]

\* np.arange(start, end, step) for step > 0
arange(start, end, step) ==
    LET n == IF end > start THEN (end - start + step - 1) \div step ELSE 0
    IN  [ i \in 1..n |-> start + (i - 1) * step ]

\* the extent of a[lo : lo + n] along an axis of length len (lo >= 0): NumPy
\* clips the slice at the end of the axis
SliceLen(lo, n, len) == Max(0, Min(lo + n, len) - Min(lo, len))

\* arr[y : y + P, x : x + P]: a view of arr (same buffer id) with the clipped shape
Slice(arr, x, y, P) ==
    [ id |-> arr.id, h |-> SliceLen(y, P, arr.h), w |-> SliceLen(x, P, arr.w),
      c |-> arr.c, x |-> x, y |-> y ]

Shape(a) == << a.h, a.w, a.c >>

BlockPixels(blk) ==
    { <<px, py>> : px \in blk.x..(blk.x + blk.w - 1), py \in blk.y..(blk.y + blk.h - 1) }

\* cv2.bitwise_and raises when the two blocks differ in shape or are empty
BitwiseAndRaises(patch_arr, patch_mask_arr) ==
    \/ Shape(patch_arr) # Shape(patch_mask_arr)
    \/ patch_arr.h = 0 \/ patch_arr.w = 0

\* lines 395-412: countNonZero(cvtColor(bitwise_and(patch, mask), RGB2GRAY)):
\* the pixels of the block that are white in the mask and not black in the image
WhitePixelCnt(rgb, msk, patch_arr) ==
    Cardinality({ p \in BlockPixels(patch_arr) : p \in msk.px /\ p \notin rgb.px })

AcceptAnyShape(cnt, patch_arr, P) == 2 * cnt >= P * P

\* lines 419-421: white_pixel_cnt >= (PATCH_SIZE ** 2) * 0.5 and
\* patch_arr.shape == (PATCH_SIZE, PATCH_SIZE, CHANNEL)
Accept(cnt, patch_arr, P) ==
    /\ 2 * cnt >= P * P
    /\ Shape(patch_arr) = << P, P, CHANNEL >>

----------------------------------------------------------------------------
(* save_to_disk lines 569-583: the rows of the coordinate record, or the   *)
(* KeyError of tumor_dict[coord].  A tumor_dict is [none, map]: None, or a *)
(* dict given as a function from coordinates to areas.  tumor_% is kept as *)
(* the pair <<numerator, denominator>>.                                    *)

NoneDict == [ none |-> TRUE, map |-> << >> ]
Dict(f) == [ none |-> FALSE, map |-> f ]

CoordRows(coords, td, P) ==
    IF td.none
    THEN [ raised |-> "none",
           rows |-> [ i \in 1..Len(coords) |->
                        [ coord_x |-> coords[i][1], coord_y |-> coords[i][2],
                          tumor_area |-> 0, tumor_pct |-> << 0, P * P >> ] ] ]
    ELSE IF \E i \in 1..Len(coords) : coords[i] \notin DOMAIN td.map
    THEN [ raised |-> "KeyError", rows |-> << >> ]
    ELSE [ raised |-> "none",
           rows |-> [ i \in 1..Len(coords) |->
                        [ coord_x |-> coords[i][1], coord_y |-> coords[i][2],
                          tumor_area |-> td.map[coords[i]],
                          tumor_pct |-> << td.map[coords[i]], P * P >> ] ] ]

----------------------------------------------------------------------------
(* extract_all *)

NoCall == [ fn |-> "none" ]
NoRet == [ done |-> FALSE ]

BagsIdle ==
    /\ contours_ = << >> /\ reg_i = 0 /\ X = << >> /\ Y = << >>
    /\ h_pos = 0 /\ w_pos = 0
    /\ patches = << >> /\ patches_coords = << >> /\ patches_coords_local = << >>
    /\ visited = << >>

BuffersIdle ==
    /\ rgba_image = NoArray /\ wsi_rgb_ = NoArray /\ wsi_gray_ = NoArray
    /\ wsi_hsv_ = NoArray /\ mask = NoArray /\ contours = << >>

Init ==
    /\ slide \in Slides
    /\ pnflag \in BOOLEAN
    /\ PATCH_SIZE \in PatchSizes
    /\ pc = "open" /\ err = "none" /\ wsi_obj = "unbound" /\ sect_i = 0
    /\ BuffersIdle /\ BagsIdle
    /\ patches_all = << >> /\ polygon_list = "unbound"
    /\ disk = << >> /\ regions_read = << >>
    /\ call = NoCall /\ ret = NoRet

sect == section_list[sect_i]

\* line 630: wsi_obj = openSlide_init(slide_path, level)
OpenSlideInit ==
    /\ pc = "open"
    /\ wsi_obj' = openSlide_init(slide)
    /\ pc' = IF pnflag THEN "parse" ELSE "for"
    /\ UNCHANGED << slide, pnflag, PATCH_SIZE, err, sect_i, bufVars, bagVars,
                    patches_all, polygon_list, disk, regions_read, call, ret >>

\* lines 632-635: the arguments of the parse_annotation call are evaluated
\* first; sect is a local of extract_all (the loop variable of line 639) that
\* is not bound yet, so the call raises before parse_annotation is entered
ParseAnnotationCall ==
    /\ pc = "parse"
    /\ pc' = "raised" /\ err' = "UnboundLocalError"
    /\ UNCHANGED << slide, pnflag, PATCH_SIZE, wsi_obj, sect_i, bufVars, bagVars,
                    patches_all, polygon_list, disk, regions_read, call, ret >>

\* line 639: for sect in section_list; lines 683-685 when the list is exhausted
ForSect ==
    /\ pc = "for"
    /\ IF sect_i < Len(section_list)
       THEN sect_i' = sect_i + 1 /\ pc' = "read"
       ELSE sect_i' = sect_i /\ pc' = "done"
    /\ UNCHANGED << slide, pnflag, PATCH_SIZE, err, wsi_obj, bufVars, bagVars,
                    patches_all, polygon_list, disk, regions_read, call, ret >>

\* line 643, read_wsi: level_dimensions of None raises AttributeError (line 122);
\* otherwise one read_region call and its RGBA array (height, width, 4)
ReadWsi ==
    /\ pc = "read"
    /\ IF wsi_obj = "None"
       THEN /\ pc' = "raised" /\ err' = "AttributeError"
            /\ UNCHANGED << rgba_image, regions_read >>
       ELSE /\ regions_read' = Append(regions_read, ReadRegionCall(sect, slide.W, slide.H))
            /\ rgba_image' = [ id |-> sect_i, h |-> WidthSplit(slide.H),
                               w |-> WidthSplit(slide.W), c |-> 4,
                               px |-> KindDark(slide.tissue[sect_i]) ]
            /\ pc' = "convert" /\ err' = err
    /\ UNCHANGED << slide, pnflag, PATCH_SIZE, wsi_obj, sect_i, wsi_rgb_, wsi_gray_,
                    wsi_hsv_, mask, contours, bagVars, patches_all, polygon_list, disk, call, ret >>

\* lines 644-653: construct_colored_wsi builds three new arrays (cv2.merge,
\* cv2.cvtColor); then del rgba_image
ConstructColoredWsi ==
    /\ pc = "convert"
    /\ wsi_rgb_' = [ rgba_image EXCEPT !.c = 3 ]
    /\ wsi_gray_' = [ rgba_image EXCEPT !.c = 1 ]
    /\ wsi_hsv_' = [ rgba_image EXCEPT !.c = 3 ]
    /\ rgba_image' = NoArray
    /\ pc' = "segment"
    /\ UNCHANGED << slide, pnflag, PATCH_SIZE, err, wsi_obj, sect_i, mask, contours,
                    bagVars, patches_all, polygon_list, disk, regions_read, call, ret >>

\* lines 655-659: segmentation_hsv returns the contours of the section's
\* tissue and the filled mask of the RGB image's shape; then del wsi_hsv_
SegmentationHsv ==
    /\ pc = "segment"
    /\ contours' = KindContours(slide.tissue[sect_i])
    /\ mask' = DrawMask(contours', Shape(wsi_rgb_), sect_i)
    /\ wsi_hsv_' = NoArray
    /\ pc' = "bags"
    /\ UNCHANGED << slide, pnflag, PATCH_SIZE, err, wsi_obj, sect_i, rgba_image,
                    wsi_rgb_, wsi_gray_, bagVars, patches_all, polygon_list, disk,
                    regions_read, call, ret >>

----------------------------------------------------------------------------
(* construct_bags, called at lines 661-663 *)

\* lines 310-337: empty result lists; contours sorted by area, first five kept
BagsEnter ==
    /\ pc = "bags"
    /\ patches' = << >> /\ patches_coords' = << >> /\ patches_coords_local' = << >>
    /\ visited' = << >>
    /\ contours_' = FirstFive(SortedByArea(contours))
    /\ reg_i' = 0 /\ X' = << >> /\ Y' = << >> /\ h_pos' = 0 /\ w_pos' = 0
    /\ pc' = "bags_region"
    /\ UNCHANGED << slide, pnflag, PATCH_SIZE, err, wsi_obj, sect_i, bufVars,
                    patches_all, polygon_list, disk, regions_read, call, ret >>

\* lines 339-365: the next region's bounding box and candidate grid; lines
\* 435-441 when the regions are exhausted
BagsRegion ==
    /\ pc = "bags_region"
    /\ IF reg_i < Len(contours_)
       THEN LET box_ == boundingRect(contours_[reg_i + 1])
                b_x_start == box_[1]
                b_y_start == box_[2]
                b_x_end == box_[1] + box_[3]
                b_y_end == box_[2] + box_[4]
            IN  /\ reg_i' = reg_i + 1
                /\ X' = arange(b_x_start, b_x_end, PATCH_SIZE \div 2)
                /\ Y' = arange(b_y_start, b_y_end, PATCH_SIZE \div 2)
                /\ h_pos' = 1 /\ w_pos' = 1
                /\ pc' = IF Len(X') > 0 /\ Len(Y') > 0 THEN "bags_cand" ELSE "bags_region"
       ELSE /\ pc' = "save"
            /\ UNCHANGED << reg_i, X, Y, h_pos, w_pos >>
    /\ UNCHANGED << slide, pnflag, PATCH_SIZE, err, wsi_obj, sect_i, bufVars,
                    contours_, patches, patches_coords, patches_coords_local, visited,
                    patches_all, polygon_list, disk, regions_read, call, ret >>

\* lines 369-433: one candidate corner (X[w_pos], Y[h_pos])
BagsCandidate ==
    /\ pc = "bags_cand"
    /\ LET x_width_ == X[w_pos]
           y_height_ == Y[h_pos]
           patch_arr == Slice(wsi_rgb_, x_width_, y_height_, PATCH_SIZE)
           patch_mask_arr == Slice(mask, x_width_, y_height_, PATCH_SIZE)
           delta == Delta(sect, slide.W, slide.H)
           saved ==
               /\ ~BitwiseAndRaises(patch_arr, patch_mask_arr)
               /\ Accept(WhitePixelCnt(wsi_rgb_, mask, patch_arr), patch_arr, PATCH_SIZE)
       IN  /\ visited' = Append(visited, [ contour |-> contours_[reg_i],
                                           x |-> x_width_, y |-> y_height_,
                                           saved |-> saved ])
           /\ IF saved
              THEN /\ patches' = Append(patches, patch_arr)
                   /\ patches_coords' =
                        Append(patches_coords,
                               << x_width_ + delta[1], y_height_ + delta[2] >>)
                   /\ patches_coords_local' =
                        Append(patches_coords_local, << x_width_, y_height_ >>)
              ELSE UNCHANGED << patches, patches_coords, patches_coords_local >>
    /\ IF w_pos < Len(X) THEN w_pos' = w_pos + 1 /\ h_pos' = h_pos /\ pc' = pc
       ELSE IF h_pos < Len(Y) THEN w_pos' = 1 /\ h_pos' = h_pos + 1 /\ pc' = pc
       ELSE w_pos' = w_pos /\ h_pos' = h_pos /\ pc' = "bags_region"
    /\ UNCHANGED << slide, pnflag, PATCH_SIZE, err, wsi_obj, sect_i, bufVars,
                    contours_, reg_i, X, Y, patches_all, polygon_list, disk, regions_read, call, ret >>

----------------------------------------------------------------------------
(* calc_tumorArea is called at line 668 and defined nowhere in the source  *)
(* file; it is modelled from its contract: the area of the intersection of *)
(* each patch's P x P square with the union of the polygons.  A polygon is *)
(* a closed ring of points; areas are counted in unit cells, which is      *)
(* exact for the axis-aligned rectangles used here.                        *)

\* the unit cells (named by their lower-left corner) inside a rectangular ring
PolygonCells(ring) ==
    LET xs == { ring[i][1] : i \in 1..Len(ring) }
        ys == { ring[i][2] : i \in 1..Len(ring) }
    IN  { <<cx, cy>> : cx \in SetMin(xs)..(SetMax(xs) - 1),
                       cy \in SetMin(ys)..(SetMax(ys) - 1) }

\* the unit cells of the P x P square at coord
BoxCells(coord, P) ==
    { <<cx, cy>> : cx \in coord[1]..(coord[1] + P - 1),
                   cy \in coord[2]..(coord[2] + P - 1) }

RECURSIVE SumOverlaps(_, _, _, _)
SumOverlaps(polys, coord, P, i) ==
    IF i > Len(polys) THEN 0
    ELSE Cardinality(BoxCells(coord, P) \cap PolygonCells(polys[i]))
         + SumOverlaps(polys, coord, P, i + 1)

TumorAreaPairwise(polys, coord, P) == SumOverlaps(polys, coord, P, 1)

\* area(box(coord, P) intersected with the union of the polygons)
TumorArea(polys, coord, P) ==
    Cardinality(BoxCells(coord, P)
                \cap UNION { PolygonCells(polys[i]) : i \in 1..Len(polys) })

\* the mapping from coordinate to overlap; with omit, coordinates of zero
\* overlap are left out of the mapping
calc_tumorArea(polys, coords, P, omit) ==
    LET keys == { coords[i] : i \in 1..Len(coords) }
        kept == IF omit THEN { k \in keys : TumorArea(polys, k, P) > 0 } ELSE keys
    IN  [ k \in kept |-> TumorArea(polys, k, P) ]

----------------------------------------------------------------------------
(* extract_all, after construct_bags has returned *)

\* lines 665-672: if len(patches): patches_all.append(patches); tumor_dict;
\* save_to_disk(patches, patches_coords, tumor_dict, mask, ...)
SaveSection ==
    /\ pc = "save"
    /\ IF Len(patches) > 0
       THEN \E omit \in (IF pnflag THEN BOOLEAN ELSE {FALSE}) :
            LET tumor_dict == IF pnflag
                              THEN Dict(calc_tumorArea(polygon_list, patches_coords,
                                                       PATCH_SIZE, omit))
                              ELSE NoneDict
                df1_ == CoordRows(patches_coords, tumor_dict, PATCH_SIZE)
            IN  /\ patches_all' = Append(patches_all, patches)
                /\ IF df1_.raised # "none"
                   THEN pc' = "raised" /\ err' = df1_.raised /\ disk' = disk
                   ELSE /\ disk' = Append(disk, [ sect |-> sect, rows |-> df1_.rows,
                                                  n_patches |-> Len(patches),
                                                  mask |-> mask.id ])
                        /\ pc' = "release" /\ err' = err
       ELSE /\ pc' = "release"
            /\ UNCHANGED << patches_all, disk, err >>
    /\ UNCHANGED << slide, pnflag, PATCH_SIZE, wsi_obj, sect_i, bufVars, bagVars,
                    polygon_list, regions_read, call, ret >>

\* lines 674-677: del wsi_rgb_; del patches; del mask; gc.collect()
ReleaseSection ==
    /\ pc = "release"
    /\ wsi_rgb_' = NoArray /\ mask' = NoArray /\ patches' = << >>
    /\ pc' = "for"
    /\ UNCHANGED << slide, pnflag, PATCH_SIZE, err, wsi_obj, sect_i, rgba_image,
                    wsi_gray_, wsi_hsv_, contours, contours_, reg_i, X, Y, h_pos,
                    w_pos, patches_coords, patches_coords_local, visited,
                    patches_all, polygon_list, disk, regions_read, call, ret >>

Next ==
    \/ OpenSlideInit
    \/ ParseAnnotationCall
    \/ ForSect
    \/ ReadWsi
    \/ ConstructColoredWsi
    \/ SegmentationHsv
    \/ BagsEnter
    \/ BagsRegion
    \/ BagsCandidate
    \/ SaveSection
    \/ ReleaseSection

Spec == Init /\ [][Next]_vars

----------------------------------------------------------------------------
(* parse_annotation lines 455-519.  The annotation is given as its         *)
(* sequence of Coordinates groups, each a sequence of <<X, Y>> attribute   *)
(* values (non-negative whole numbers, level-0 scale).                     *)

\* lines 489-496: x = int(float(X)); x /= mag_factor; x = int(x): true
\* division followed by truncation toward zero
Scale(a, mf) == IF a >= 0 THEN a \div mf ELSE -((-a) \div mf)

LocalCoordNonPositive(g, d) == IF g - d <= 0 THEN -1 ELSE g - d

\* lines 504-509: local = global - delta, negative replaced by -1
LocalCoord(g, d) == IF g - d < 0 THEN -1 ELSE g - d

\* shapely Polygon(points): the exterior ring, closed with the first point
Polygon(pts) == IF pts[1] = pts[Len(pts)] THEN pts ELSE Append(pts, pts[1])

HasPolygonFromTwo(node_list_) == Len(node_list_) > 1

\* line 515: if len(node_list_) > 2
HasPolygon(node_list_) == Len(node_list_) > 2

RECURSIVE PolygonList(_, _)
\* lines 515-517 over the loop of line 473: polygons appended in group order
PolygonList(anno_list, i) ==
    IF i > Len(anno_list) THEN << >>
    ELSE (IF HasPolygon(anno_list[i]) THEN << Polygon(anno_list[i]) >> ELSE << >>)
         \o PolygonList(anno_list, i + 1)

parse_annotation(groups, sct, W, H, mf) ==
    LET delta == Delta(sct, W, H)
        node_list_(g) == [ j \in 1..Len(g) |-> << Scale(g[j][1], mf), Scale(g[j][2], mf) >> ]
        node_local_list_(g) ==
            [ j \in 1..Len(g) |-> << LocalCoord(Scale(g[j][1], mf), delta[1]),
                                     LocalCoord(Scale(g[j][2], mf), delta[2]) >> ]
        anno_list == [ i \in 1..Len(groups) |-> node_list_(groups[i]) ]
    IN  [ polygon_list |-> PolygonList(anno_list, 1),
          anno_list |-> anno_list,
          anno_local_list |-> [ i \in 1..Len(groups) |-> node_local_list_(groups[i]) ] ]

----------------------------------------------------------------------------
(* Functions applied on their own: parse_annotation, calc_tumorArea and    *)
(* save_to_disk with a tumor_dict (extract_all never gets that far for an  *)
(* annotated slide, see ParseAnnotationCall).                              *)

\* sequences over S of length lo..hi
SeqsUpTo(S, lo, hi) == UNION { [ 1..n -> S ] : n \in lo..hi }

\* a coordinate group: the first n points of the walk around the square of
\* side 9 at start
GroupOf(start, n) ==
    [ j \in 1..n |->
        CASE j % 4 = 1 -> start
          [] j % 4 = 2 -> << start[1] + 9, start[2] >>
          [] j % 4 = 3 -> << start[1] + 9, start[2] + 9 >>
          [] OTHER     -> << start[1], start[2] + 9 >> ]

Groups == { GroupOf(st, n) : st \in { <<8, 8>>, <<37, 70>> }, n \in 0..MaxPts }

FnSections == { <<0, 0>>, <<1, 0>>, <<0, 2>>, <<3, 3>> }

ParseCalls ==
    { [ fn |-> "parse_annotation", groups |-> gs, sect |-> sc, W |-> d, H |-> d,
        level |-> lv ] :
      gs \in SeqsUpTo(Groups, 1, MaxGroups), sc \in FnSections, d \in Dims,
      lv \in 0..MaxLevel }

\* annotation polygons: rectangle rings; the first lies inside the second
Polygons ==
    { Polygon(<< <<2, 2>>, <<4, 2>>, <<4, 4>>, <<2, 4>> >>),
      Polygon(<< <<1, 1>>, <<6, 1>>, <<6, 6>>, <<1, 6>> >>),
      Polygon(<< <<5, 0>>, <<9, 0>>, <<9, 3>>, <<5, 3>> >>) }

PatchCoords == { <<0, 0>>, <<3, 3>>, <<8, 8>> }

CalcCalls ==
    { [ fn |-> "calc_tumorArea", polygon_list |-> ps, patches_coords |-> cs ] :
      ps \in SeqsUpTo(Polygons, 0, MaxPolys), cs \in SeqsUpTo(PatchCoords, 1, MaxCoords) }

\* tumor_dict as extract_all lines 667-670 hand it over: None, or what
\* calc_tumorArea returned for these coordinates
SaveCalls(P) ==
    { [ fn |-> "save_to_disk", patches_coords |-> cs, tumor_dict |-> td ] :
      cs \in SeqsUpTo(PatchCoords, 1, MaxCoords),
      td \in {NoneDict} \cup { Dict(calc_tumorArea(ps, cs2, P, om)) :
                               ps \in SeqsUpTo(Polygons, 0, MaxPolys),
                               cs2 \in SeqsUpTo(PatchCoords, 1, MaxCoords),
                               om \in BOOLEAN } }

FnInit ==
    /\ PATCH_SIZE \in PatchSizes
    /\ call \in (IF PATCH_SIZE = 2 THEN ParseCalls ELSE {})
                \cup CalcCalls \cup SaveCalls(PATCH_SIZE)
    /\ ret = NoRet
    /\ slide = [ openable |-> TRUE, W |-> BaseDim, H |-> BaseDim,
                 tissue |-> [ s \in 1..16 |-> "none" ] ]
    /\ pnflag = TRUE
    /\ pc = "call" /\ err = "none" /\ wsi_obj = "OpenSlide" /\ sect_i = 0
    /\ BuffersIdle /\ BagsIdle
    /\ patches_all = << >> /\ polygon_list = "unbound"
    /\ disk = << >> /\ regions_read = << >>

pipeVars == << slide, pnflag, PATCH_SIZE, err, wsi_obj, sect_i, bufVars, bagVars,
               patches_all, polygon_list, disk, regions_read >>

CallParseAnnotation ==
    /\ pc = "call" /\ call.fn = "parse_annotation"
    /\ ret' = [ done |-> TRUE,
                value |-> parse_annotation(call.groups, call.sect, call.W, call.H,
                                           Pow2(call.level)) ]
    /\ pc' = "returned"
    /\ UNCHANGED << pipeVars, call >>

CallCalcTumorArea ==
    /\ pc = "call" /\ call.fn = "calc_tumorArea"
    /\ \E omit \in BOOLEAN :
         ret' = [ done |-> TRUE,
                  value |-> calc_tumorArea(call.polygon_list, call.patches_coords,
                                           PATCH_SIZE, omit) ]
    /\ pc' = "returned"
    /\ UNCHANGED << pipeVars, call >>

\* save_to_disk: the rows written to the coordinate file, or the exception
\* that leaves the function before df1_.to_csv (line 583)
CallSaveToDisk ==
    /\ pc = "call" /\ call.fn = "save_to_disk"
    /\ LET df1_ == CoordRows(call.patches_coords, call.tumor_dict, PATCH_SIZE)
       IN  ret' = [ done |-> TRUE, raised |-> df1_.raised, rows |-> df1_.rows ]
    /\ pc' = "returned"
    /\ UNCHANGED << pipeVars, call >>

FnNext == CallParseAnnotation \/ CallCalcTumorArea \/ CallSaveToDisk

SpecFn == FnInit /\ [][FnNext]_vars

----------------------------------------------------------------------------
(* Properties *)

InBags == pc \in {"bags_region", "bags_cand", "save", "release"}

\* the mask's white pixels inside the P x P square at (x, y)
MaskCovered(x, y, P) ==
    Cardinality({ q \in mask.px : /\ x <= q[1] /\ q[1] < x + P
                                  /\ y <= q[2] /\ q[2] < y + P })

PastBounds(x, y, P) == x + P > wsi_rgb_.w \/ y + P > wsi_rgb_.h

C2_GlobalIsLocalPlusOffset ==
    InBags =>
        /\ Len(patches) = Len(patches_coords)
        /\ Len(patches_coords) = Len(patches_coords_local)
        /\ \A i \in 1..Len(patches_coords) :
              /\ patches_coords[i][1] =
                    patches_coords_local[i][1] + section_list[sect_i][1] * (slide.W \div 4)
              /\ patches_coords[i][2] =
                    patches_coords_local[i][2] + section_list[sect_i][2] * (slide.H \div 4)
              /\ << patches[i].x, patches[i].y >> = patches_coords_local[i]

\* C2 witness: patches returned for a section off the diagonal of the grid
C2_Witness ==
    /\ pc = "save" /\ Len(patches) > 1
    /\ section_list[sect_i][1] > 0 /\ section_list[sect_i][2] > 0
    /\ section_list[sect_i][1] # section_list[sect_i][2]

\* the number of regions read so far that hold pixel (px, py) of the level
RegionsHolding(px, py) ==
    Cardinality({ k \in 1..Len(regions_read) :
        LET r == regions_read[k]
            x0 == r.location[1] \div Pow2(r.level)
            y0 == r.location[2] \div Pow2(r.level)
        IN  /\ x0 <= px /\ px < x0 + r.size[1]
            /\ y0 <= py /\ py < y0 + r.size[2] })

\* two read regions share no pixel of the level
RegionsDisjoint(r, q) ==
    LET rx == r.location[1] \div Pow2(r.level)
        ry == r.location[2] \div Pow2(r.level)
        qx == q.location[1] \div Pow2(q.level)
        qy == q.location[2] \div Pow2(q.level)
    IN  \/ rx + r.size[1] <= qx \/ qx + q.size[1] <= rx
        \/ ry + r.size[2] <= qy \/ qy + q.size[2] <= ry

\* C3 as stated: once all sections are read, every pixel of [0,W) x [0,H)
\* belongs to exactly one section
C3_SectionsCoverLevel ==
    pc = "done" =>
        \A px \in 0..(slide.W - 1), py \in 0..(slide.H - 1) : RegionsHolding(px, py) = 1

\* C3 amended: no pixel is ever in two sections, and once all 16 sections are
\* read they cover exactly [0, 4*(W // 4)) x [0, 4*(H // 4)): the last W mod 4
\* columns and H mod 4 rows of the level are in no section
C3_SectionsTileTruncatedLevel ==
    /\ \A k, l \in 1..Len(regions_read) :
          k < l => RegionsDisjoint(regions_read[k], regions_read[l])
    /\ pc = "done" =>
          /\ Len(regions_read) = 16
          /\ \A px \in 0..(slide.W + 3), py \in 0..(slide.H + 3) :
                RegionsHolding(px, py) =
                    IF px < 4 * (slide.W \div 4) /\ py < 4 * (slide.H \div 4) THEN 1 ELSE 0

\* C3 witness: all sections read of a level whose width is no multiple of 4
C3_Witness == pc = "done" /\ slide.W % 4 # 0 /\ Len(regions_read) = 16

\* 1 + the number of contours of the section with a strictly larger area
AreaRank(c) ==
    1 + Cardinality({ j \in 1..Len(contours) : contourArea2(contours[j]) > contourArea2(c) })

\* C4: construct_bags samples at most 5 contours, and none whose area ranks
\* 6th or lower: no candidate corner comes from such a contour's bounding box
\* (so no accepted patch does)
C4_OnlyTopFiveSampled ==
    pc # "bags" =>
        /\ Len(contours_) <= 5
        /\ Cardinality({ visited[k].contour : k \in 1..Len(visited) }) <= 5
        /\ \A k \in 1..Len(visited) :
              /\ AreaRank(visited[k].contour) <= 5
              /\ \E j \in 1..Len(contours) : contours[j] = visited[k].contour

\* C4 witness: construct_bags has gone through five regions of a section
\* that has a contour ranking 6th or lower
C4_Witness ==
    /\ pc = "save" /\ reg_i = 5 /\ Len(visited) > 0
    /\ \E j \in 1..Len(contours) : AreaRank(contours[j]) >= 6

\* C8: when the slide cannot be opened, no section is read, segmented or
\* sampled and save_to_disk is never called
C8_UnopenedSlideAborts ==
    ~slide.openable =>
        /\ regions_read = << >> /\ disk = << >>
        /\ BuffersIdle /\ BagsIdle /\ patches_all = << >>
        /\ pc \in {"open", "parse", "for", "read", "raised"}

\* C8 witness: the run of an unopenable, non-annotated slide has ended in
\* read_wsi's exception
C8_Witness == ~slide.openable /\ ~pnflag /\ pc = "raised" /\ err = "AttributeError"

\* the buffers still referenced from extract_all's state, by kind
LiveRgba == { rgba_image.id } \ {0}
LiveHsv == { wsi_hsv_.id } \ {0}
LiveMask == { mask.id } \ {0}
LiveRgb ==
    ({ wsi_rgb_.id } \ {0})
    \cup { patches[i].id : i \in 1..Len(patches) }
    \cup UNION { { patches_all[j][i].id : i \in 1..Len(patches_all[j]) } :
                 j \in 1..Len(patches_all) }

\* C10 as stated: when the region read of a section begins, no raw region,
\* HSV array, RGB array or mask of an earlier section is referenced any more
C10_BuffersReleasedBeforeNextRead ==
    pc = "read" =>
        LiveRgba = {} /\ LiveHsv = {} /\ LiveRgb = {} /\ LiveMask = {}

\* C11 as stated: for an annotated slide the polygon set has been computed
\* once the annotation step of extract_all is passed, before any section is
\* read, and stays the one set the sections use; for a non-annotated slide no
\* annotation is parsed and no overlap is computed (every saved row has
\* tumor_area 0)
C11_PolygonsComputedOnceBeforeSections ==
    /\ (pnflag /\ slide.openable /\ pc \notin {"open", "parse"}) =>
          polygon_list # "unbound"
    /\ (pnflag /\ polygon_list = "unbound") => regions_read = << >>
    /\ ~pnflag =>
          /\ polygon_list = "unbound"
          /\ \A k \in 1..Len(disk) : \A i \in 1..Len(disk[k].rows) :
                disk[k].rows[i].tumor_area = 0

\* the grid points bx, bx + s, bx + 2s, ... below bx + bw, counted
GridCount(bw, s) == Cardinality({ k \in 0..bw : k * s < bw })

\* the candidate corners of one region, row by row: for each y of the grid
\* over [by, by + bh), every x of the grid over [bx, bx + bw), with step P div 2
ExpectedCorners(c, P) ==
    LET b == boundingRect(c)
        s == P \div 2
        nx == GridCount(b[3], s)
        ny == GridCount(b[4], s)
    IN  [ n \in 1..(nx * ny) |->
            [ contour |-> c,
              x |-> b[1] + ((n - 1) % nx) * s,
              y |-> b[2] + ((n - 1) \div nx) * s ] ]

RECURSIVE ExpectedVisits(_, _, _)
\* the candidate corners of regions r, r + 1, ... of cs, region after region
ExpectedVisits(cs, P, r) ==
    IF r > Len(cs) THEN << >>
    ELSE ExpectedCorners(cs[r], P) \o ExpectedVisits(cs, P, r + 1)

\* C12: the candidate corners construct_bags enumerates for each kept region
\* with bounding box (bx, by, bw, bh) are exactly the grid points (x, y) with
\* x in {bx, bx + P div 2, bx + 2 * (P div 2), ...}, x < bx + bw, and y
\* likewise in [by, by + bh), visited row by row, region after region
C12_CandidateGridRowByRow ==
    LET expected == ExpectedVisits(contours_, PATCH_SIZE, 1)
    IN  /\ Len(visited) <= Len(expected)
        /\ \A k \in 1..Len(visited) :
              /\ visited[k].contour = expected[k].contour
              /\ visited[k].x = expected[k].x
              /\ visited[k].y = expected[k].y
        /\ pc \in {"save", "release"} => Len(visited) = Len(expected)

\* C12 witness: the region with bounding box (1, 1, 6, 6) sampled with P = 2
\* (step 1) gave the 36 corners x, y in {1, ..., 6}, the first row first
C12_Witness ==
    /\ pc = "save" /\ PATCH_SIZE = 2
    /\ Len(contours_) = 1 /\ boundingRect(contours_[1]) = << 1, 1, 6, 6 >>
    /\ Len(visited) = 36
    /\ { visited[k].x : k \in 1..36 } = 1..6
    /\ { visited[k].y : k \in 1..36 } = 1..6
    /\ << visited[1].x, visited[1].y >> = << 1, 1 >>
    /\ << visited[2].x, visited[2].y >> = << 2, 1 >>
    /\ << visited[7].x, visited[7].y >> = << 1, 2 >>
    /\ << visited[36].x, visited[36].y >> = << 6, 6 >>

----------------------------------------------------------------------------
(* Properties of the functions applied on their own *)

Returned(fn) == pc = "returned" /\ call.fn = fn /\ ret.done

\* C5: every point (X, Y) is scaled to (X div mag_factor, Y div mag_factor);
\* each local component is global minus the section offset when that is >= 0
\* and -1 when it is negative, independently of the other component
C5_ScaledAndLocalCoordinates ==
    Returned("parse_annotation") =>
        LET mf == Pow2(call.level)
            dx == call.sect[1] * (call.W \div 4)
            dy == call.sect[2] * (call.H \div 4)
        IN  \A i \in 1..Len(call.groups) : \A j \in 1..Len(call.groups[i]) :
              LET gx == call.groups[i][j][1] \div mf
                  gy == call.groups[i][j][2] \div mf
              IN  /\ ret.value.anno_list[i][j] = << gx, gy >>
                  /\ ret.value.anno_local_list[i][j] =
                        << IF gx - dx >= 0 THEN gx - dx ELSE -1,
                           IF gy - dy >= 0 THEN gy - dy ELSE -1 >>

\* C5 witness: a point scaled by 2 to (4, 4) in a section with offset (8, 0)
\* has local coordinate (-1, 4)
C5_Witness ==
    /\ Returned("parse_annotation")
    /\ call.level = 1 /\ call.sect = <<1, 0>> /\ call.W \div 4 = 8
    /\ call.groups[1][1] = <<8, 8>>
    /\ ret.value.anno_list[1][1] = <<4, 4>>
    /\ ret.value.anno_local_list[1][1] = <<-1, 4>>

\* the ring of a group's points, scaled to the level: closed by its first
\* point unless the group already ends where it starts
ExpectedRing(g, mf) ==
    LET n == Len(g)
        closed == << g[n][1] \div mf, g[n][2] \div mf >> = << g[1][1] \div mf, g[1][2] \div mf >>
    IN  [ j \in 1..(IF closed THEN n ELSE n + 1) |->
            LET pt == IF j <= n THEN g[j] ELSE g[1]
            IN  << pt[1] \div mf, pt[2] \div mf >> ]

\* C6 as stated: the global and local lists hold one entry per group, and
\* the polygon of source group i is entry i of the polygon list
C6_PolygonsAlignedToGroups ==
    Returned("parse_annotation") =>
        /\ Len(ret.value.anno_list) = Len(call.groups)
        /\ Len(ret.value.anno_local_list) = Len(call.groups)
        /\ \A i \in 1..Len(call.groups) :
              Len(call.groups[i]) > 2 =>
                  /\ i <= Len(ret.value.polygon_list)
                  /\ ret.value.polygon_list[i] =
                        ExpectedRing(call.groups[i], Pow2(call.level))

LongGroups == { i \in 1..Len(call.groups) : Len(call.groups[i]) > 2 }

\* C6 amended: the global and local lists hold one entry per group, a group's
\* entry holding one coordinate per point; the polygon list holds, in source
\* order, the polygons of exactly the groups with more than 2 points, so the
\* polygon of the k-th such group is entry k
C6_PolygonsOfLongGroupsInOrder ==
    Returned("parse_annotation") =>
        /\ Len(ret.value.anno_list) = Len(call.groups)
        /\ Len(ret.value.anno_local_list) = Len(call.groups)
        /\ \A i \in 1..Len(call.groups) :
              /\ Len(ret.value.anno_list[i]) = Len(call.groups[i])
              /\ Len(ret.value.anno_local_list[i]) = Len(call.groups[i])
        /\ Len(ret.value.polygon_list) = Cardinality(LongGroups)
        /\ \A i \in LongGroups :
              ret.value.polygon_list[Cardinality({ k \in LongGroups : k <= i })] =
                  ExpectedRing(call.groups[i], Pow2(call.level))

\* C6 witness: a group of fewer than 3 points followed by a group of 3 or more
C6_Witness ==
    /\ Returned("parse_annotation")
    /\ Len(call.groups) = 2
    /\ Len(call.groups[1]) \in 1..2 /\ Len(call.groups[2]) > 2
    /\ Len(ret.value.polygon_list) = 1 /\ Len(ret.value.anno_list) = 2

\* C7 as stated: save_to_disk writes one row per accepted patch, the row's
\* tumor_area being the mapping's value for the coordinate and 0 (tumor_% 0)
\* for a coordinate absent from the mapping, without failing; with no
\* annotation every row has tumor_area 0 and tumor_% 0
C7_RowPerPatchAbsentIsZero ==
    Returned("save_to_disk") =>
        /\ ret.raised = "none"
        /\ Len(ret.rows) = Len(call.patches_coords)
        /\ \A i \in 1..Len(call.patches_coords) :
              LET coord == call.patches_coords[i]
                  td == call.tumor_dict
                  area == IF td.none \/ coord \notin DOMAIN td.map THEN 0 ELSE td.map[coord]
              IN  /\ ret.rows[i].coord_x = coord[1] /\ ret.rows[i].coord_y = coord[2]
                  /\ ret.rows[i].tumor_area = area
                  /\ ret.rows[i].tumor_pct[1] = area

\* the area two axis-aligned rectangles [ax, ax+aw) x [ay, ay+ah) share
RectOverlap(ax, ay, aw, ah, bx, by, bw, bh) ==
    Max(0, Min(ax + aw, bx + bw) - Max(ax, bx))
    * Max(0, Min(ay + ah, by + bh) - Max(ay, by))

\* (x, y, w, h) of a rectangle ring given by its corner points
RingRect(ring) ==
    LET xs == { ring[i][1] : i \in 1..Len(ring) }
        ys == { ring[i][2] : i \in 1..Len(ring) }
    IN  << SetMin(xs), SetMin(ys), SetMax(xs) - SetMin(xs), SetMax(ys) - SetMin(ys) >>

RingInside(a, b) ==
    LET ra == RingRect(a)
        rb == RingRect(b)
    IN  /\ rb[1] <= ra[1] /\ ra[1] + ra[3] <= rb[1] + rb[3]
        /\ rb[2] <= ra[2] /\ ra[2] + ra[4] <= rb[2] + rb[4]

OverlapOf(coord) == IF coord \in DOMAIN ret.value THEN ret.value[coord] ELSE 0

\* C9: the overlap of a patch never exceeds P*P, and for two polygons of
\* which one lies inside the other it is the overlap with the outer one alone
C9_UnionOverlapNotDoubleCounted ==
    Returned("calc_tumorArea") =>
        \A i \in 1..Len(call.patches_coords) :
            LET coord == call.patches_coords[i]
                ps == call.polygon_list
            IN  /\ OverlapOf(coord) <= PATCH_SIZE * PATCH_SIZE
                /\ \A a \in 1..2 :
                      (Len(ps) = 2 /\ RingInside(ps[a], ps[3 - a])) =>
                          LET rb == RingRect(ps[3 - a])
                          IN  OverlapOf(coord) =
                                 RectOverlap(coord[1], coord[2], PATCH_SIZE, PATCH_SIZE,
                                             rb[1], rb[2], rb[3], rb[4])

\* C9 witness: a patch overlapping both of two nested, different polygons
C9_Witness ==
    /\ Returned("calc_tumorArea")
    /\ Len(call.polygon_list) = 2
    /\ call.polygon_list[1] # call.polygon_list[2]
    /\ RingInside(call.polygon_list[1], call.polygon_list[2])
    /\ \E i \in 1..Len(call.patches_coords) :
          LET coord == call.patches_coords[i]
              ra == RingRect(call.polygon_list[1])
          IN  /\ RectOverlap(coord[1], coord[2], PATCH_SIZE, PATCH_SIZE,
                             ra[1], ra[2], ra[3], ra[4]) > 0
              /\ OverlapOf(coord) > 0

====
